---- MODULE Spec2Model ----
(***************************************************************************)
(* RAGify: the retrieval pipeline of the RAG chat bot.                     *)
(*   - DocumentService._split_text_into_chunks  (the chunker loop)         *)
(*   - EmbeddingService over the Chroma collection (the vector index)      *)
(*   - upload / background processing / delete in backend/main.py          *)
(*   - ChatService.generate_response and the per-session history files     *)
(*   - the chat handler of backend/main.py: search, then generate_response *)
(* Each part has its own specification over the shared variables.          *)
(***************************************************************************)
EXTENDS Integers, Sequences, FiniteSets, TLC

VARIABLES
    \* ---- DocumentService._split_text_into_chunks ----
    text,         \* the text being split: a sequence of characters
    chunk_size,   \* parameter chunk_size
    overlap,      \* parameter overlap
    start,        \* the local variable start (the cursor)
    chunks,       \* the local list chunks
    windows,      \* history: <<start, end>> of every iteration of the while loop
    spc,          \* position in the function: "entry", "loop", "done", "raised"
    \* ---- EmbeddingService: the Chroma collection "documents" ----
    index,        \* the records of the collection, in insertion order
    lastOp,       \* history: the last create_embeddings or
                  \* delete_document_embeddings call, its arguments, count()
                  \* before it, and whether it repeats the call before
    searched,     \* the search_similar_documents call, when that was the last
                  \* call of the service: its arguments, whether encode or
                  \* query raised, and what it returned
    \* ---- DocumentService and the handlers of backend/main.py ----
    metadata,     \* DocumentService.metadata: doc_id -> record
    files,        \* the doc_ids whose uploaded file is on disk
    uploaded,     \* doc_id -> the upload: its filename and the chunks that the
                  \* text of its file splits into
    task,         \* doc_id -> position of process_document_background
    running,      \* history: doc_id -> the number of background tasks added
                  \* for the id that have not ended
    deleting,     \* doc_ids whose DELETE handler is between its two awaits
    deleted,      \* doc_ids for which DELETE has answered success
    \* ---- ChatService ----
    histories,    \* file name -> the messages of data/chat_history/<name>.json
                  \* (no file and no messages are the same: <<>>)
    turns,        \* call of generate_response -> its locals and position,
                  \* and whether the search of the chat handler that made
                  \* the call had failed
    appended,     \* history: file name -> the messages that
                  \* _save_message_to_history was called with and wrote, in
                  \* the order of the calls, since the file was last
                  \* removed
    storeOp       \* history: the last call of get_chat_history,
                  \* clear_chat_history or _save_message_to_history made from
                  \* outside generate_response, the call before it, and what
                  \* it returned

splitVars == <<text, chunk_size, overlap, start, chunks, windows, spc>>
indexVars == <<index, lastOp, searched>>
appVars == <<metadata, files, uploaded, task, running, deleting, deleted>>
chatVars == <<histories, turns, appended, storeOp>>

vars == <<text, chunk_size, overlap, start, chunks, windows, spc,
          index, lastOp, searched, metadata, files, uploaded, task, running,
          deleting, deleted,
          histories, turns, appended, storeOp>>

(***************************************************************************)
(* Bounds of the model.                                                    *)
(***************************************************************************)
MaxTextLen == 7      \* longest text given to the chunker
MaxChunkSize == 6    \* largest chunk_size given to the chunker
MaxIter == 10        \* most iterations of the while loop that are followed
MaxBadTextLen == 4   \* longest text given to the chunker with a bad configuration
MaxBadSize == 3      \* largest chunk_size and overlap of a bad configuration

(***************************************************************************)
(* Python helpers.                                                         *)
(***************************************************************************)
Min(a, b) == IF a < b THEN a ELSE b
Max(a, b) == IF a > b THEN a ELSE b

\* Python dict: the empty dict, d[k] = v, del d[k].
EmptyMap == [k \in {} |-> 0]
Put(d, k, v) == [x \in DOMAIN d \cup {k} |-> IF x = k THEN v ELSE d[x]]
Del(d, k) == [x \in DOMAIN d \ {k} |-> d[x]]

\* The characters of a text: a letter, a blank (whitespace), a sentence end.
Chars == {"a", " ", "."}

\* str.strip() removes these; "\n" is both whitespace and a break character.
IsSpace(c) == c \in {" ", "\n"}

\* text[i] in '.!?\n'
IsBreak(c) == c \in {".", "!", "?", "\n"}

\* Python s[i] with 0-based i, negative i counting from the end.
\* Defined only when PyIndexOk.
PyIndexOk(s, i) == (i >= 0 /\ i < Len(s)) \/ (i < 0 /\ i + Len(s) >= 0)
PyIndex(s, i) == IF i >= 0 THEN s[i + 1] ELSE s[i + Len(s) + 1]

\* Python s[lo:hi]: negative bounds count from the end, then both are
\* clamped to 0..len(s); an empty range gives the empty sequence.
PyClamp(s, k) ==
    LET k1 == IF k < 0 THEN k + Len(s) ELSE k
    IN  Max(0, Min(Len(s), k1))
PySlice(s, lo, hi) == SubSeq(s, PyClamp(s, lo) + 1, PyClamp(s, hi))

RECURSIVE LStrip(_)
LStrip(s) == IF s # <<>> /\ IsSpace(Head(s)) THEN LStrip(Tail(s)) ELSE s

RECURSIVE RStrip(_)
RStrip(s) ==
    IF s # <<>> /\ IsSpace(s[Len(s)]) THEN RStrip(SubSeq(s, 1, Len(s) - 1)) ELSE s

StripNothing(s) == s

\* str.strip()
Strip(s) == RStrip(LStrip(s))

(***************************************************************************)
(* DocumentService._split_text_into_chunks, one loop iteration per step.   *)
(***************************************************************************)
\* The cap on how far back the break search looks (end - 200).
LookBack == 200

\* for i in range(end, max(start + chunk_size // 2, end - 200), -1):
\*     if text[i] in '.!?\n': end = i + 1; break
\* The result is the new end, or "IndexError" when text[i] is out of range.
RECURSIVE ScanBreak(_, _, _, _)
ScanBreak(t, i, stop, end) ==
    IF i <= stop THEN [raised |-> FALSE, end |-> end]
    ELSE IF ~PyIndexOk(t, i) THEN [raised |-> TRUE, end |-> end]
    ELSE IF IsBreak(PyIndex(t, i)) THEN [raised |-> FALSE, end |-> i + 1]
    ELSE ScanBreak(t, i - 1, stop, end)

\* Lines 134-142: the end of the window that starts at s.
WindowEnd(t, s, size) ==
    LET end == s + size
    IN  IF end < Len(t)
        THEN ScanBreak(t, end, Max(s + size \div 2, end - LookBack), end)
        ELSE [raised |-> FALSE, end |-> end]

\* Line 148: start = end - overlap
NextStartSkip(end, ov) == end + ov
NextStart(end, ov) == end - ov

\* Lines 127-131: the whitespace test and the initialisation of the loop.
SplitEnter ==
    /\ spc = "entry"
    /\ IF Strip(text) = <<>>
       THEN spc' = "done"
       ELSE spc' = "loop"
    /\ UNCHANGED <<text, chunk_size, overlap, start, chunks, windows>>
    /\ UNCHANGED <<indexVars, appVars, chatVars>>

\* Lines 133-148: one iteration of the while loop.
SplitIterate ==
    /\ spc = "loop"
    /\ start < Len(text)
    /\ Len(windows) < MaxIter
    /\ LET w == WindowEnd(text, start, chunk_size)
           chunk == Strip(PySlice(text, start, w.end))
       IN  IF w.raised
           THEN /\ spc' = "raised"
                /\ UNCHANGED <<start, chunks, windows>>
           ELSE /\ chunks' = IF chunk # <<>> THEN Append(chunks, chunk) ELSE chunks
                /\ windows' = Append(windows, <<start, w.end>>)
                /\ start' = NextStart(w.end, overlap)
                /\ spc' = "loop"
    /\ UNCHANGED <<text, chunk_size, overlap>>
    /\ UNCHANGED <<indexVars, appVars, chatVars>>

\* Lines 133, 150: the loop condition fails and chunks is returned.
SplitReturn ==
    /\ spc = "loop"
    /\ ~(start < Len(text))
    /\ spc' = "done"
    /\ UNCHANGED <<text, chunk_size, overlap, start, chunks, windows>>
    /\ UNCHANGED <<indexVars, appVars, chatVars>>

\* All texts of at most n characters.
RECURSIVE TextsUpTo(_)
TextsUpTo(n) ==
    IF n = 0 THEN {<<>>}
    ELSE LET shorter == TextsUpTo(n - 1)
         IN  shorter \cup {Append(t, c) : t \in {u \in shorter : Len(u) = n - 1}, c \in Chars}

\* The text "Paris is the capital of France. It is known for the Eiffel
\* Tower.", character by character.
ParisText ==
    << "P", "a", "r", "i", "s", " ", "i", "s", " ", "t", "h", "e", " ",
       "c", "a", "p", "i", "t", "a", "l", " ", "o", "f", " ", "F", "r",
       "a", "n", "c", "e", ".", " ", "I", "t", " ", "i", "s", " ", "k",
       "n", "o", "w", "n", " ", "f", "o", "r", " ", "t", "h", "e", " ",
       "E", "i", "f", "f", "e", "l", " ", "T", "o", "w", "e", "r", "." >>

\* The state of the chunker before any call.
SplitIdle ==
    /\ text = <<>>
    /\ chunk_size = 1000
    /\ overlap = 100
    /\ start = 0
    /\ chunks = <<>>
    /\ windows = <<>>
    /\ spc = "entry"

\* The history record of an EmbeddingService call.
OpRecord(op, doc_id, text_chunks) ==
    [op |-> op, doc_id |-> doc_id, chunks |-> text_chunks,
     before |-> Len(index),
     repeat |-> /\ lastOp.op = op
                /\ lastOp.doc_id = doc_id
                /\ lastOp.chunks = text_chunks]
NoOp == [op |-> "none", doc_id |-> "", chunks |-> <<>>, before |-> 0, repeat |-> FALSE]

\* The state of the services after construction with an empty data directory.
\* No search_similar_documents call yet.
NoSearch == [query |-> "", top_k |-> 0, failed |-> FALSE, results |-> <<>>]

IndexEmpty ==
    /\ index = <<>>
    /\ lastOp = NoOp
    /\ searched = NoSearch

\* The ids that uploads are given.
DocIds == {"d1", "d2"}

AppEmpty ==
    /\ metadata = EmptyMap
    /\ files = {}
    /\ uploaded = EmptyMap
    /\ task = EmptyMap
    /\ running = [d \in DocIds |-> 0]
    /\ deleting = {}
    /\ deleted = {}

\* The sessions, named by session ids that are plain file names, and the
\* concurrent calls of generate_response.
Sessions == {"s1", "s2"}

\* The session ids a client may send: session_id is any string of the
\* request (main.py 41), here a plain name or a name behind "./".
SessionIds == Sessions \cup {"./s1"}
Turns == {"t1", "t2"}

\* A call of generate_response that has not started.
IdleTurn ==
    [pc |-> "idle", session |-> "", query |-> <<>>, docs |-> <<>>,
     search_failed |-> FALSE,
     messages |-> <<>>, llm_ok |-> FALSE, write_failed |-> FALSE,
     reply |-> <<>>, response |-> [message |-> <<>>, sources |-> <<>>]]

\* No call of the history operations yet.
NoStoreOp ==
    [op |-> "none", session |-> "", before |-> 0, result |-> <<>>,
     prev |-> [op |-> "none", session |-> "", before |-> 0]]

\* ChatService after construction with an empty data/chat_history.
ChatEmpty ==
    /\ histories = [s \in Sessions |-> <<>>]
    /\ turns = [t \in Turns |-> IdleTurn]
    /\ appended = [s \in Sessions |-> <<>>]
    /\ storeOp = NoStoreOp

\* A call with 0 < overlap < chunk_size: any short text, or the Paris text
\* with chunk_size = 40 and overlap = 5.
InitSplit ==
    /\ \/ /\ text \in TextsUpTo(MaxTextLen)
          /\ chunk_size \in 1..MaxChunkSize
          /\ overlap \in 1..(chunk_size - 1)
       \/ /\ text = ParisText
          /\ chunk_size = 40
          /\ overlap = 5
    /\ start = 0
    /\ chunks = <<>>
    /\ windows = <<>>
    /\ spc = "entry"
    /\ IndexEmpty
    /\ AppEmpty
    /\ ChatEmpty

NextSplit == SplitEnter \/ SplitIterate \/ SplitReturn

SpecSplit == InitSplit /\ [][NextSplit]_vars

\* The configurations outside 0 < overlap < chunk_size.
BadConfig(size, ov) == ov >= size \/ size <= 0 \/ ov <= 0

\* A call with such a configuration: the function does not validate its
\* parameters, so the call runs the same code.
InitSplitConfig ==
    /\ text \in TextsUpTo(MaxBadTextLen)
    /\ chunk_size \in (0 - 1)..MaxBadSize
    /\ overlap \in (0 - 1)..MaxBadSize
    /\ BadConfig(chunk_size, overlap)
    /\ start = 0
    /\ chunks = <<>>
    /\ windows = <<>>
    /\ spc = "entry"
    /\ IndexEmpty
    /\ AppEmpty
    /\ ChatEmpty

SpecSplitConfig == InitSplitConfig /\ [][NextSplit]_vars

\* A call with any configuration, valid or not.
InitSplitAny == InitSplit \/ InitSplitConfig

SpecSplitAny == InitSplitAny /\ [][NextSplit]_vars

(***************************************************************************)
(* Claims about the chunker.                                               *)
(***************************************************************************)
\* C1: every chunk returned by _split_text_into_chunks has at most
\* chunk_size characters.
ChunkLengthBounded ==
    \A k \in 1..Len(chunks) : Len(chunks[k]) <= chunk_size

\* C2: every iteration of the loop moves the cursor forward by at least one
\* character (which is what makes the loop terminate).
CursorAdvances ==
    [][(spc = "loop" /\ windows' # windows) => start' >= start + 1]_vars

\* C3: the start offsets of the windows of successive iterations are
\* strictly increasing.
StartsStrictlyIncreasing ==
    \A k \in 1..(Len(windows) - 1) : windows[k][1] < windows[k + 1][1]

\* A character of a word: neither whitespace nor a break character.
IsWordChar(c) == ~IsSpace(c) /\ ~IsBreak(c)

\* Offset k (0-based, 0 < k < len) falls between two characters of one word.
MidWord(t, k) ==
    /\ k > 0
    /\ k < Len(t)
    /\ IsWordChar(t[k])
    /\ IsWordChar(t[k + 1])

\* C11: the Paris text with chunk_size = 40 and overlap = 5 is returned as
\* exactly two chunks, the first ending at the sentence boundary after
\* "France.", and no chunk starts or ends in the middle of a word.
ParisTwoChunks ==
    (spc = "done" /\ text = ParisText /\ chunk_size = 40 /\ overlap = 5) =>
        /\ Len(chunks) = 2
        /\ chunks[1] = SubSeq(ParisText, 1, 31)
        /\ \A k \in 1..Len(windows) :
              /\ ~MidWord(text, PyClamp(text, windows[k][1]))
              /\ ~MidWord(text, PyClamp(text, windows[k][2]))

\* C12: a call with overlap >= chunk_size, chunk_size <= 0 or overlap <= 0
\* fails with an error and produces no chunks.
BadConfigRejected ==
    (BadConfig(chunk_size, overlap) /\ spc # "entry") =>
        (spc = "raised" /\ chunks = <<>>)

\* Character p (1-based) of the text lies in the chunk of window k.
InChunk(p, k) ==
    /\ PyClamp(text, windows[k][1]) < p
    /\ p <= PyClamp(text, windows[k][2])
    /\ Strip(PySlice(text, windows[k][1], windows[k][2])) # <<>>

\* C13: the windows in order cover the text without gaps: each window
\* starts no later than the end of the window before it, and in the returned
\* result every non-whitespace character lies inside at least one chunk.
WindowsCoverText ==
    /\ \A k \in 2..Len(windows) : windows[k][1] <= windows[k - 1][2]
    /\ spc = "done" =>
          \A p \in 1..Len(text) :
              ~IsSpace(text[p]) => \E k \in 1..Len(windows) : InChunk(p, k)

\* A returned split of a full-length text in three or more windows, one of
\* them shrunk to a break, with text between blanks.
CoveredInThreeWindows ==
    /\ spc = "done"
    /\ Len(text) = MaxTextLen
    /\ Len(windows) >= 3
    /\ \E k \in 1..Len(windows) : windows[k][2] < windows[k][1] + chunk_size
    /\ \E p \in 2..(Len(text) - 1) : IsSpace(text[p]) /\ ~IsSpace(text[p + 1])

\* The text is empty or holds whitespace only.
IsBlankText == \A p \in 1..Len(text) : text[p] \in {" ", "\n", "\t"}

\* C21: for every chunk_size and overlap, a text that is empty or holds only
\* whitespace makes _split_text_into_chunks return the empty list at once:
\* the loop is never entered, no chunk is produced and no error is raised.
BlankTextGivesNoChunks ==
    (IsBlankText /\ spc # "entry") =>
        (spc = "done" /\ chunks = <<>> /\ windows = <<>> /\ start = 0)

\* A whitespace-only text of two or more characters has been split under a
\* configuration outside 0 < overlap < chunk_size.
BlankTextReturned ==
    /\ spc = "done"
    /\ IsBlankText
    /\ chunks = <<>>
    /\ Len(text) >= 2
    /\ BadConfig(chunk_size, overlap)

(***************************************************************************)
(* EmbeddingService: create_embeddings, delete_document_embeddings over    *)
(* the Chroma collection.  A record of the collection is                   *)
(*   [id, document, metadata: [document_id, filename, chunk_index]]        *)
(* with id = <<doc_id, i>> standing for the string f"{doc_id}_{i}".        *)
(***************************************************************************)
Filenames == {"a.txt", "b.txt"}
ChunkTexts == {"c1", "c2"}
MaxDocChunks == 2      \* most chunks of one document
MaxIndexEntries == 6   \* create_embeddings is not followed beyond this size

\* All sequences over S of length at most n.
RECURSIVE SeqsUpTo(_, _)
SeqsUpTo(S, n) ==
    IF n = 0 THEN {<<>>}
    ELSE LET shorter == SeqsUpTo(S, n - 1)
         IN  shorter \cup {Append(q, x) : q \in {u \in shorter : Len(u) = n - 1}, x \in S}

ChunkLists == SeqsUpTo(ChunkTexts, MaxDocChunks)

\* Lines 35-44: ids and metadatas of create_embeddings, zipped with documents.
NewRecords(text_chunks, doc_id, filename) ==
    [i \in 1..Len(text_chunks) |->
        [id |-> <<doc_id, i - 1>>,
         document |-> text_chunks[i],
         metadata |-> [document_id |-> doc_id,
                       filename |-> filename,
                       chunk_index |-> i - 1]]]

IndexIds(col) == {col[k].id : k \in 1..Len(col)}

\* A collection.add that inserts every record, whether or not its id is
\* already in the collection.
CollectionAddNoCheck(col, records) == col \o records

\* collection.add (lines 47-52): Chroma keeps one record per id; a record
\* whose id is already in the collection is not inserted.
RECURSIVE CollectionAdd(_, _)
CollectionAdd(col, records) ==
    IF records = <<>> THEN col
    ELSE LET r == Head(records)
         IN  IF r.id \in IndexIds(col)
             THEN CollectionAdd(col, Tail(records))
             ELSE CollectionAdd(Append(col, r), Tail(records))

\* A get that returns only the id of the document's first chunk.
CollectionGetFirstId(col, doc_id) ==
    {col[k].id : k \in {j \in 1..Len(col) :
                           /\ col[j].metadata.document_id = doc_id
                           /\ col[j].metadata.chunk_index = 0}}

\* collection.get(where={"document_id": doc_id})['ids'] (lines 88-90)
CollectionGetIds(col, doc_id) ==
    {col[k].id : k \in {j \in 1..Len(col) : col[j].metadata.document_id = doc_id}}

\* collection.delete(ids=...) (line 94)
CollectionDelete(col, ids) == SelectSeq(col, LAMBDA r : r.id \notin ids)

\* collection.count()
Count(col) == Len(col)

\* create_embeddings when encode and add succeed (lines 28-52).
CreateEmbeddingsResult(col, text_chunks, doc_id, filename) ==
    IF text_chunks = <<>> THEN col
    ELSE CollectionAdd(col, NewRecords(text_chunks, doc_id, filename))

\* delete_document_embeddings (lines 86-95).
DeleteEmbeddingsResult(col, doc_id) ==
    LET ids == CollectionGetIds(col, doc_id)
    IN  IF ids # {} THEN CollectionDelete(col, ids) ELSE col

\* EmbeddingService.create_embeddings(text_chunks, doc_id, filename)
CreateEmbeddings(text_chunks, doc_id, filename) ==
    /\ Len(index) + Len(text_chunks) <= MaxIndexEntries
    /\ index' = CreateEmbeddingsResult(index, text_chunks, doc_id, filename)
    /\ lastOp' = OpRecord("create_embeddings", doc_id, text_chunks)
    /\ searched' = NoSearch
    /\ UNCHANGED <<splitVars, appVars, chatVars>>

\* EmbeddingService.delete_document_embeddings(doc_id)
DeleteDocumentEmbeddings(doc_id) ==
    /\ index' = DeleteEmbeddingsResult(index, doc_id)
    /\ lastOp' = OpRecord("delete_document_embeddings", doc_id, <<>>)
    /\ searched' = NoSearch
    /\ UNCHANGED <<splitVars, appVars, chatVars>>

\* The queries given to search_similar_documents.
IndexQueries == {"q1"}

\* embedding_model.encode: the direction of the embedding of a text, in steps
\* of 90 degrees.  Query q1 has the direction of chunk text c1 and is
\* orthogonal to chunk text c2.
EmbedAngle(t) ==
    CASE t = "c1" -> 0
      [] t = "c2" -> 1
      [] t = "q1" -> 0

\* The cosine of k steps of 90 degrees, in hundredths.
CosPct(k) ==
    CASE k = 0 -> 100
      [] k = 1 -> 0

\* The collection has "hnsw:space": "cosine": the distance of two texts is
\* 1 - cosine similarity, here in hundredths.
Distance(a, b) ==
    LET d == EmbedAngle(a) - EmbedAngle(b)
    IN  100 - CosPct(IF d < 0 THEN 0 - d ELSE d)

\* n_results=top_k (main.py 107, and the default of the parameter).
MaxSimilarDocs == 3
TopKs == {MaxSimilarDocs}

\* collection.query(query_embeddings, n_results=top_k) (lines 63-66): the
\* positions of the min(top_k, count) nearest records, nearest first;
\* records at the same distance are taken in the order of their insertion.
QueryHits(col, query, top_k) ==
    LET n == Min(top_k, Len(col))
        dist == [k \in 1..Len(col) |-> Distance(query, col[k].document)]
        before(j, k) == dist[j] < dist[k] \/ (dist[j] = dist[k] /\ j < k)
        rank == [k \in 1..Len(col) |->
                    Cardinality({j \in 1..Len(col) : before(j, k)}) + 1]
    IN  [i \in 1..n |-> CHOOSE k \in 1..Len(col) : rank[k] = i]

\* Lines 69-76: the hits as dicts of content, metadata and distance.
FormatHits(col, query, h) ==
    [i \in 1..Len(h) |->
        [content |-> <<col[h[i]].document>>,
         metadata |-> col[h[i]].metadata,
         distance |-> Distance(query, col[h[i]].document)]]

\* search_similar_documents that returns the hits although encode or query
\* raised.
SearchOutcomesKeepHits(col, query, top_k) ==
    {[query |-> query, top_k |-> top_k, failed |-> f,
      results |-> FormatHits(col, query, QueryHits(col, query, top_k))] : f \in BOOLEAN}

\* EmbeddingService.search_similar_documents(query, top_k): the formatted
\* hits, or [] when encode or query raises (lines 80-82).
SearchOutcomes(col, query, top_k) ==
    {[query |-> query, top_k |-> top_k, failed |-> FALSE,
      results |-> FormatHits(col, query, QueryHits(col, query, top_k))],
     [query |-> query, top_k |-> top_k, failed |-> TRUE, results |-> <<>>]}

SearchSimilarDocuments(query, top_k) ==
    /\ searched' \in SearchOutcomes(index, query, top_k)
    /\ UNCHANGED <<index, lastOp, splitVars, appVars, chatVars>>

\* The filenames given to create_embeddings when it is called on its own.
IndexFilenames == {"a.txt"}

InitIndex == SplitIdle /\ IndexEmpty /\ AppEmpty /\ ChatEmpty

NextIndex ==
    \/ \E c \in ChunkLists, d \in DocIds, f \in IndexFilenames : CreateEmbeddings(c, d, f)
    \/ \E d \in DocIds : DeleteDocumentEmbeddings(d)
    \/ \E q \in IndexQueries, k \in TopKs : SearchSimilarDocuments(q, k)

SpecIndex == InitIndex /\ [][NextIndex]_vars

\* The records of the collection stored for a document id.
EntriesOf(col, doc_id) ==
    {k \in 1..Len(col) : col[k].metadata.document_id = doc_id}

UniqueIds ==
    \A j, k \in 1..Len(index) : index[j].id = index[k].id => j = k

\* C10: after create_embeddings is called a second time for one doc_id with
\* the same chunks, count() is what it was after the first call, and in
\* every state the ids of the collection are unique.
ReindexIdempotent ==
    /\ UniqueIds
    /\ (lastOp.op = "create_embeddings" /\ lastOp.repeat)
           => Count(index) = lastOp.before

\* C10 witness: a two-chunk document has just been indexed a second time.
ReindexedTwice ==
    /\ lastOp.op = "create_embeddings"
    /\ lastOp.repeat
    /\ Len(lastOp.chunks) = 2
    /\ Cardinality(EntriesOf(index, lastOp.doc_id)) = 2

\* SIMILARITY_THRESHOLD = 0.7 (config.py 22), in hundredths.
SimilarityThreshold == 70

\* The cosine similarity of a result, in hundredths.
Similarity(r) == 100 - r.distance

\* C14: search_similar_documents never returns a result whose similarity is
\* below the configured similarity threshold.
ResultsAboveThreshold ==
    \A i \in 1..Len(searched.results) :
        Similarity(searched.results[i]) >= SimilarityThreshold

(***************************************************************************)
(* backend/main.py: upload_document, process_document_background and       *)
(* delete_document, with DocumentService.save_document, extract_text and   *)
(* delete_document.  A handler is split where it awaits another service.   *)
(***************************************************************************)
\* metadata.get("chunk_count") of a document that has no such key
NoCount == -1

\* An upload under an id that an earlier upload may have had.
AnyId(doc_id) == TRUE

\* doc_id = str(uuid.uuid4()) (main.py 65): an id no upload had before.
FreshId(doc_id) == doc_id \notin DOMAIN task

\* upload_document (main.py 49-82) with save_document (37-58): the uuid4 is
\* an id no upload had before; the file is written, the metadata entry is
\* created with processed = False, and the background task is queued.
UploadDocument(doc_id, filename, text_chunks) ==
    /\ FreshId(doc_id)
    /\ files' = files \cup {doc_id}
    /\ metadata' = Put(metadata, doc_id,
                       [id |-> doc_id, filename |-> filename,
                        processed |-> FALSE, chunk_count |-> NoCount])
    /\ uploaded' = Put(uploaded, doc_id, [filename |-> filename, chunks |-> text_chunks])
    /\ task' = Put(task, doc_id, "queued")
    /\ running' = [running EXCEPT ![doc_id] = @ + 1]
    /\ UNCHANGED <<deleting, deleted, splitVars, indexVars, chatVars>>

\* DocumentService.extract_text (60-84), called at main.py 91: the text is
\* extracted and split, then the metadata entry, if there still is one, is
\* set to processed with chunk_count = len(chunks).  Reading the file raises
\* when the file is gone or cannot be parsed; the task catches it (97-98).
ProcessExtract(doc_id) ==
    /\ doc_id \in DOMAIN task
    /\ task[doc_id] = "queued"
    /\ \E ok \in BOOLEAN :
          /\ ok => doc_id \in files
          /\ IF ok
             THEN /\ metadata' =
                        IF doc_id \in DOMAIN metadata
                        THEN [metadata EXCEPT
                                 ![doc_id].processed = TRUE,
                                 ![doc_id].chunk_count = Len(uploaded[doc_id].chunks)]
                        ELSE metadata
                  /\ task' = [task EXCEPT ![doc_id] = "extracted"]
                  /\ UNCHANGED running
             ELSE /\ task' = [task EXCEPT ![doc_id] = "failed"]
                  /\ running' = [running EXCEPT ![doc_id] = @ - 1]
                  /\ UNCHANGED metadata
    /\ UNCHANGED <<files, uploaded, deleting, deleted, splitVars, indexVars, chatVars>>

\* EmbeddingService.create_embeddings called at main.py 94: encode or
\* collection.add may raise, which the task catches (97-98).
ProcessEmbed(doc_id) ==
    /\ doc_id \in DOMAIN task
    /\ task[doc_id] = "extracted"
    /\ LET u == uploaded[doc_id]
       IN  \E ok \in BOOLEAN :
              /\ (u.chunks = <<>>) => ok
              /\ IF ok
                 THEN /\ index' = CreateEmbeddingsResult(index, u.chunks, doc_id, u.filename)
                      /\ lastOp' = OpRecord("create_embeddings", doc_id, u.chunks)
                      /\ task' = [task EXCEPT ![doc_id] = "done"]
                 ELSE /\ task' = [task EXCEPT ![doc_id] = "failed"]
                      /\ UNCHANGED <<index, lastOp>>
    /\ running' = [running EXCEPT ![doc_id] = @ - 1]
    /\ UNCHANGED <<searched, metadata, files, uploaded, deleting, deleted, splitVars, chatVars>>

\* delete_document (main.py 150-153) with DocumentService.delete_document
\* (168-180): the file is unlinked and the metadata entry removed.  For an
\* unknown id the service raises and the handler answers 500.
DeleteDocumentStart(doc_id) ==
    /\ doc_id \in DOMAIN metadata
    /\ files' = files \ {doc_id}
    /\ metadata' = Del(metadata, doc_id)
    /\ deleting' = deleting \cup {doc_id}
    /\ UNCHANGED <<uploaded, task, running, deleted, splitVars, indexVars, chatVars>>

\* delete_document_embeddings as main.py 154 sees it: the records of the
\* document are deleted, or collection.get or collection.delete raised and
\* the service printed the error (embedding_service.py 97-98), leaving the
\* collection as it was.  The call returns normally in both cases.
DeleteEmbeddingsOutcomes(col, doc_id) == {DeleteEmbeddingsResult(col, doc_id), col}

\* delete_document (main.py 154-155): the embeddings are deleted and the
\* handler answers success.
DeleteDocumentFinish(doc_id) ==
    /\ doc_id \in deleting
    /\ index' \in DeleteEmbeddingsOutcomes(index, doc_id)
    /\ lastOp' = OpRecord("delete_document_embeddings", doc_id, <<>>)
    /\ deleting' = deleting \ {doc_id}
    /\ deleted' = deleted \cup {doc_id}
    /\ UNCHANGED <<searched, metadata, files, uploaded, task, running, splitVars, chatVars>>

InitApp == SplitIdle /\ IndexEmpty /\ AppEmpty /\ ChatEmpty

NextApp ==
    \/ \E d \in DocIds, f \in Filenames, c \in ChunkLists : UploadDocument(d, f, c)
    \/ \E d \in DocIds : ProcessExtract(d)
    \/ \E d \in DocIds : ProcessEmbed(d)
    \/ \E d \in DocIds : DeleteDocumentStart(d)
    \/ \E d \in DocIds : DeleteDocumentFinish(d)

SpecApp == InitApp /\ [][NextApp]_vars

\* C8: in every state a document marked processed with chunk_count = N has
\* exactly N records in the collection, and a document whose processing
\* failed is not marked processed.
ProcessedMeansIndexed ==
    \A d \in DOMAIN metadata :
        /\ metadata[d].processed =>
               Cardinality(EntriesOf(index, d)) = metadata[d].chunk_count
        /\ task[d] = "failed" => ~metadata[d].processed

\* C19: at most one background processing task is in progress for a
\* document id, and the records the collection holds for an id are those of
\* one processing run: the chunks of its upload, numbered from 0.
OneTaskPerDocument ==
    \A d \in DocIds :
        /\ running[d] <= 1
        /\ d \in DOMAIN task =>
               (running[d] = 1 <=> task[d] \in {"queued", "extracted"})
        /\ d \in DOMAIN uploaded =>
               \/ EntriesOf(index, d) = {}
               \/ SelectSeq(index, LAMBDA r : r.metadata.document_id = d)
                      = NewRecords(uploaded[d].chunks, d, uploaded[d].filename)

\* C19 witness: the tasks of two uploads are in progress at once, one
\* before and one after its extraction, and the records of a third run are
\* not there: each id has its one task.
TwoDocumentsInProgress ==
    /\ running["d1"] = 1
    /\ running["d2"] = 1
    /\ task["d1"] = "extracted"
    /\ task["d2"] = "queued"
    /\ Len(uploaded["d1"].chunks) = MaxDocChunks

(***************************************************************************)
(* ChatService.generate_response with _build_context, _build_system_prompt,*)
(* _generate_fallback_response and _save_message_to_history.  Texts are    *)
(* sequences of tokens; a call is split where it awaits a history write.   *)
(***************************************************************************)
MaxStoredTurns == 6   \* most question/answer pairs stored before the run
MaxDocs == 2          \* most retrieved documents given to generate_response

\* history[-10:] keeps this many messages (chat_service.py 44).
HistoryWindow == 10
\* relevant_docs[:2] (chat_service.py 155)
FallbackDocs == 2
\* doc['content'][:300] (chat_service.py 157)
FallbackChars == 300

Queries == {<<"q1">>}
Replies == {<<"answer">>}

\* A retrieved document as search_similar_documents formats it.
RelevantDocs ==
    [content : {<<"x">>}, metadata : [filename : Filenames]]
DocLists == SeqsUpTo(RelevantDocs, MaxDocs)

\* The lists given to the call that starts second: at most one document.
ShortDocLists == SeqsUpTo(RelevantDocs, 1)

\* The histories of session s1 before the run: none, one that fills the
\* window of history[-10:] exactly, and one that is longer than the window.
StoredTurns == {0, HistoryWindow \div 2, MaxStoredTurns}

\* A history file written by n earlier chat turns.
StoredHistory(n) ==
    [k \in 1..(2 * n) |->
        [role |-> IF k % 2 = 1 THEN "user" ELSE "assistant",
         content |-> <<"old", ToString(k)>>,
         session_id |-> "s1",
         turn |-> "old"]]

\* Join a sequence of texts.
RECURSIVE Concat(_)
Concat(parts) == IF parts = <<>> THEN <<>> ELSE Head(parts) \o Concat(Tail(parts))

\* A context that is empty when there are no documents.
BuildContextSilent(relevant_docs) ==
    IF relevant_docs = <<>>
    THEN <<>>
    ELSE <<"Based on the following document excerpts:">>
         \o Concat([i \in 1..Len(relevant_docs) |->
                      <<"Document", ToString(i), "from",
                        relevant_docs[i].metadata.filename>>
                      \o relevant_docs[i].content])

\* _build_context (118-129)
BuildContext(relevant_docs) ==
    IF relevant_docs = <<>>
    THEN <<"No relevant documents found.">>
    ELSE <<"Based on the following document excerpts:">>
         \o Concat([i \in 1..Len(relevant_docs) |->
                      <<"Document", ToString(i), "from",
                        relevant_docs[i].metadata.filename>>
                      \o relevant_docs[i].content])

\* _build_system_prompt (131-145)
BuildSystemPrompt(context) ==
    <<"You are a helpful AI assistant that answers questions based on provided documents.">>
    \o context
    \o <<"Instructions:", "Remember:">>

\* history[:10]: the oldest messages instead of the newest.
OldestHistory(history) == PySlice(history, 0, HistoryWindow)

\* history[-10:] (44)
RecentHistory(history) == PySlice(history, 0 - HistoryWindow, Len(history))

\* Lines 41-51: the message list for the generation call.
BuildMessages(system_prompt, history, user_message) ==
    <<[role |-> "system", content |-> system_prompt]>>
    \o [i \in 1..Len(RecentHistory(history)) |->
          [role |-> RecentHistory(history)[i].role,
           content |-> RecentHistory(history)[i].content]]
    \o <<[role |-> "user", content |-> user_message]>>

\* _generate_fallback_response (147-161)
GenerateFallbackResponse(relevant_docs) ==
    IF relevant_docs = <<>>
    THEN <<"I apologize, but I couldn't find relevant information in the uploaded documents">>
    ELSE <<"Based on the uploaded documents, I found some relevant information:">>
         \o Concat([i \in 1..Len(PySlice(relevant_docs, 0, FallbackDocs)) |->
                      <<"From", relevant_docs[i].metadata.filename>>
                      \o PySlice(relevant_docs[i].content, 0, FallbackChars)
                      \o <<"...">>])
         \o <<"Note: I'm currently unable to provide a more detailed analysis.">>

\* [doc["metadata"]["filename"] for doc in relevant_docs] (77, 112)
SourceList(relevant_docs) ==
    [i \in 1..Len(relevant_docs) |-> relevant_docs[i].metadata.filename]

\* list(set(sources)) (78): the elements of the set once each, in the
\* iteration order of the set, which Python leaves unspecified.
ListsOfSet(S) ==
    {q \in [1..Cardinality(S) -> S] : \A i, j \in 1..Cardinality(S) : q[i] = q[j] => i = j}
Range(q) == {q[i] : i \in 1..Len(q)}

\* The calls are numbered in the order in which they start.
TurnBefore(u, t) == u = "t1" /\ t = "t2"

\* The components of a session id read as a path.
PathParts(session_id) ==
    IF session_id = "./s1" THEN <<".", "s1">> ELSE <<session_id>>

\* history_file = self.chat_history_dir / f"{session_id}.json" (lines 165,
\* 199, 220): pathlib drops the "." components of the joined path, so the
\* file is named by the last component of the id.  A file is identified
\* here by its name without the suffix.
HistoryFile(session_id) ==
    LET parts == SelectSeq(PathParts(session_id), LAMBDA c : c # ".")
    IN  parts[Len(parts)]

\* The file of a session exists.
HistoryFileExists(hist, session_id) == hist[HistoryFile(session_id)] # <<>>

\* get_chat_history (197-216): [] when there is no file, else the messages
\* of the file.
GetChatHistory(hist, session_id) ==
    IF ~HistoryFileExists(hist, session_id) THEN <<>> ELSE hist[HistoryFile(session_id)]

\* A write that puts the new message in front of the loaded ones.
SavedHistoryFront(history, message) == <<message>> \o history

\* A write that stores the new message without the loaded ones.
SavedHistoryOverwrite(history, message) == <<message>>

\* Lines 176-195: the messages of the file are loaded (none when there is
\* no file), the new message is appended and the file is written.
SavedHistory(history, message) == Append(history, message)

\* A clear that leaves the file in place.
ClearKeepsFile(hist, session_id) == hist

\* clear_chat_history (218-223): the file is unlinked if it exists.
ClearResult(hist, session_id) ==
    IF HistoryFileExists(hist, session_id)
    THEN [hist EXCEPT ![HistoryFile(session_id)] = <<>>]
    ELSE hist

\* generate_response 29-62: context, prompt, history read, message list and
\* the generation call, which returns a reply or raises.
StartTurn(t, session_id, user_message, relevant_docs, search_failed) ==
    /\ turns[t].pc = "idle"
    /\ \A u \in Turns : TurnBefore(u, t) => turns[u].pc # "idle"
    /\ \E llm_ok \in BOOLEAN, reply \in Replies :
          turns' = [turns EXCEPT ![t] =
              [pc |-> IF llm_ok THEN "try_user" ELSE "exc_user",
               session |-> session_id,
               query |-> user_message,
               docs |-> relevant_docs,
               search_failed |-> search_failed,
               messages |-> BuildMessages(
                                BuildSystemPrompt(BuildContext(relevant_docs)),
                                GetChatHistory(histories, session_id),
                                user_message),
               llm_ok |-> llm_ok,
               write_failed |-> FALSE,
               reply |-> IF llm_ok THEN reply ELSE <<>>,
               response |-> IdleTurn.response]]

\* ChatService.generate_response(user_message, relevant_docs, session_id)
\* called with a list of documents.
BeginTurn(t, session_id, user_message, relevant_docs) ==
    /\ StartTurn(t, session_id, user_message, relevant_docs, FALSE)
    /\ UNCHANGED <<histories, appended, storeOp, splitVars, indexVars, appVars>>

\* _save_message_to_history (163-195) when the file is read and written.
SaveMessage(t, content, role) ==
    LET message == [role |-> role, content |-> content,
                    session_id |-> turns[t].session, turn |-> t]
        file == HistoryFile(turns[t].session)
    IN  /\ histories' = [histories EXCEPT ![file] = SavedHistory(@, message)]
        /\ appended' = [appended EXCEPT ![file] = Append(@, message)]

\* Lines 65-69: the user message is saved; a failed write raises into the
\* except branch of line 93.
TrySaveUser(t) ==
    /\ turns[t].pc = "try_user"
    /\ \E ok \in BOOLEAN :
          IF ok
          THEN /\ SaveMessage(t, turns[t].query, "user")
               /\ turns' = [turns EXCEPT ![t].pc = "try_asst"]
          ELSE /\ turns' = [turns EXCEPT ![t].pc = "exc_user", ![t].write_failed = TRUE]
               /\ UNCHANGED <<histories, appended>>
    /\ UNCHANGED <<storeOp, splitVars, indexVars, appVars>>

\* Lines 70-91: the reply is saved and the ChatResponse returned with
\* sources = list(set(sources)); a failed write raises into line 93.
TrySaveAssistant(t) ==
    /\ turns[t].pc = "try_asst"
    /\ \E ok \in BOOLEAN :
          IF ok
          THEN /\ SaveMessage(t, turns[t].reply, "assistant")
               /\ \E sources \in ListsOfSet(Range(SourceList(turns[t].docs))) :
                     turns' = [turns EXCEPT
                                  ![t].pc = "returned",
                                  ![t].response = [message |-> turns[t].reply,
                                                   sources |-> sources]]
          ELSE /\ turns' = [turns EXCEPT ![t].pc = "exc_user", ![t].write_failed = TRUE]
               /\ UNCHANGED <<histories, appended>>
    /\ UNCHANGED <<storeOp, splitVars, indexVars, appVars>>

\* Lines 93-101: the fallback text is built and the user message saved; a
\* failed write raises out of generate_response.
ExceptSaveUser(t) ==
    /\ turns[t].pc = "exc_user"
    /\ \E ok \in BOOLEAN :
          IF ok
          THEN /\ SaveMessage(t, turns[t].query, "user")
               /\ turns' = [turns EXCEPT
                               ![t].pc = "exc_asst",
                               ![t].reply = GenerateFallbackResponse(turns[t].docs)]
          ELSE /\ turns' = [turns EXCEPT ![t].pc = "raised", ![t].write_failed = TRUE]
               /\ UNCHANGED <<histories, appended>>
    /\ UNCHANGED <<storeOp, splitVars, indexVars, appVars>>

\* Lines 102-116: the fallback text is saved and the ChatResponse returned
\* with the filenames of relevant_docs as sources; a failed write raises out
\* of generate_response.
ExceptSaveAssistant(t) ==
    /\ turns[t].pc = "exc_asst"
    /\ \E ok \in BOOLEAN :
          IF ok
          THEN /\ SaveMessage(t, turns[t].reply, "assistant")
               /\ turns' = [turns EXCEPT
                               ![t].pc = "returned",
                               ![t].response = [message |-> turns[t].reply,
                                                sources |-> SourceList(turns[t].docs)]]
          ELSE /\ turns' = [turns EXCEPT ![t].pc = "raised", ![t].write_failed = TRUE]
               /\ UNCHANGED <<histories, appended>>
    /\ UNCHANGED <<storeOp, splitVars, indexVars, appVars>>

InitChat ==
    /\ SplitIdle /\ IndexEmpty /\ AppEmpty
    /\ \E n \in StoredTurns :
          histories = [s \in Sessions |-> IF s = "s1" THEN StoredHistory(n) ELSE <<>>]
    /\ turns = [t \in Turns |-> IdleTurn]
    /\ appended = histories
    /\ storeOp = NoStoreOp

NextChat ==
    \/ \E t \in Turns, s \in Sessions, q \in Queries :
          \E docs \in IF t = "t1" THEN DocLists ELSE ShortDocLists :
              BeginTurn(t, s, q, docs)
    \/ \E t \in Turns : TrySaveUser(t)
    \/ \E t \in Turns : TrySaveAssistant(t)
    \/ \E t \in Turns : ExceptSaveUser(t)
    \/ \E t \in Turns : ExceptSaveAssistant(t)

SpecChat == InitChat /\ [][NextChat]_vars

(***************************************************************************)
(* The history operations of ChatService called on their own:              *)
(* _save_message_to_history, get_chat_history and clear_chat_history.      *)
(***************************************************************************)
MaxAppends == 3   \* most messages appended to one session during the run

\* The messages given to _save_message_to_history.
SavedContents == {<<"m">>}
Roles == {"user", "assistant"}

\* The history record of a call: the operation, its session, the number of
\* messages stored for the session before it, what it returned, and the
\* call before it.
StoreOpRecord(op, session_id, result) ==
    [op |-> op, session |-> session_id,
     before |-> Len(histories[HistoryFile(session_id)]), result |-> result,
     prev |-> [op |-> storeOp.op, session |-> storeOp.session,
               before |-> storeOp.before]]

\* ChatService._save_message_to_history(session_id, content, role)
SaveMessageToHistory(session_id, content, role) ==
    /\ Cardinality({i \in 1..Len(appended[HistoryFile(session_id)]) :
                        appended[HistoryFile(session_id)][i].turn = "api"}) < MaxAppends
    /\ LET message == [role |-> role, content |-> content,
                       session_id |-> session_id, turn |-> "api"]
           file == HistoryFile(session_id)
       IN  /\ histories' = [histories EXCEPT ![file] = SavedHistory(@, message)]
           /\ appended' = [appended EXCEPT ![file] = Append(@, message)]
    /\ storeOp' = StoreOpRecord("save", session_id, <<>>)
    /\ UNCHANGED <<turns, splitVars, indexVars, appVars>>

\* ChatService.get_chat_history(session_id)
GetChatHistoryCall(session_id) ==
    /\ storeOp' = StoreOpRecord("get", session_id, GetChatHistory(histories, session_id))
    /\ UNCHANGED <<histories, appended, turns, splitVars, indexVars, appVars>>

\* ChatService.clear_chat_history(session_id)
ClearChatHistory(session_id) ==
    /\ histories' = ClearResult(histories, session_id)
    /\ appended' = [appended EXCEPT ![HistoryFile(session_id)] = <<>>]
    /\ storeOp' = StoreOpRecord("clear", session_id, <<>>)
    /\ UNCHANGED <<turns, splitVars, indexVars, appVars>>

InitStore ==
    /\ SplitIdle /\ IndexEmpty /\ AppEmpty
    /\ \E n \in StoredTurns :
          histories = [s \in Sessions |-> IF s = "s1" THEN StoredHistory(n) ELSE <<>>]
    /\ turns = [t \in Turns |-> IdleTurn]
    /\ appended = histories
    /\ storeOp = NoStoreOp

NextStore ==
    \/ \E s \in Sessions, c \in SavedContents, r \in Roles : SaveMessageToHistory(s, c, r)
    \/ \E s \in Sessions : GetChatHistoryCall(s)
    \/ \E s \in Sessions : ClearChatHistory(s)

SpecStore == InitStore /\ [][NextStore]_vars

(***************************************************************************)
(* The history operations and one chat turn, called with any session id   *)
(* a client may send.                                                      *)
(***************************************************************************)
MaxSessionLen == 2   \* most stored messages of a file that is appended to

InitSessions ==
    /\ SplitIdle /\ IndexEmpty /\ AppEmpty
    /\ \E n \in {0, 1} :
          histories = [s \in Sessions |-> IF s = "s1" THEN StoredHistory(n) ELSE <<>>]
    /\ turns = [t \in Turns |-> IdleTurn]
    /\ appended = histories
    /\ storeOp = NoStoreOp

NextSessions ==
    \/ \E s \in SessionIds, c \in SavedContents :
          /\ Len(histories[HistoryFile(s)]) < MaxSessionLen
          /\ SaveMessageToHistory(s, c, "user")
    \/ \E s \in SessionIds : ClearChatHistory(s)
    \/ \E s \in SessionIds, q \in Queries, docs \in ShortDocLists :
          BeginTurn("t1", s, q, docs)
    \/ TrySaveUser("t1")
    \/ TrySaveAssistant("t1")
    \/ ExceptSaveUser("t1")
    \/ ExceptSaveAssistant("t1")

SpecSessions == InitSessions /\ [][NextSessions]_vars

(***************************************************************************)
(* The chat handler of backend/main.py: search_similar_documents with      *)
(* top_k = 3, then generate_response with what the search returned.        *)
(***************************************************************************)
\* chat (main.py 100-115) up to the generation call.
Chat(t, session_id, message) ==
    /\ turns[t].pc = "idle"
    /\ \E found \in SearchOutcomes(index, message, MaxSimilarDocs) :
          /\ searched' = found
          /\ StartTurn(t, session_id, <<message>>, found.results, found.failed)
    /\ UNCHANGED <<index, lastOp, histories, appended, storeOp, splitVars, appVars>>

\* The collections the chat handler searches: document d1 of file a.txt
\* indexed with any chunk list, alone or followed by the one-chunk document
\* d2 of file b.txt.
IndexedCollections ==
    {CreateEmbeddingsResult(CreateEmbeddingsResult(<<>>, c1, "d1", "a.txt"),
                            c2, "d2", "b.txt") :
        c1 \in ChunkLists, c2 \in {<<>>, <<"c1">>}}

InitAsk ==
    /\ SplitIdle /\ AppEmpty /\ ChatEmpty
    /\ index \in IndexedCollections
    /\ lastOp = NoOp
    /\ searched = NoSearch

NextAsk ==
    \/ \E t \in Turns, s \in Sessions, q \in IndexQueries : Chat(t, s, q)
    \/ \E t \in Turns : TrySaveUser(t)
    \/ \E t \in Turns : TrySaveAssistant(t)
    \/ \E t \in Turns : ExceptSaveUser(t)
    \/ \E t \in Turns : ExceptSaveAssistant(t)

SpecAsk == InitAsk /\ [][NextAsk]_vars

(***************************************************************************)
(* Claims about generate_response.                                         *)
(***************************************************************************)
\* The message list the claim describes for a stored history h, a query q:
\* a system message, the last min(10, |h|) messages of h in order with their
\* roles and contents, and the query as a user message.
IsContractMessageList(msgs, h, q) ==
    LET n == Len(h)
        k == IF n < 10 THEN n ELSE 10
    IN  /\ Len(msgs) = k + 2
        /\ msgs[1].role = "system"
        /\ \A i \in 1..k :
              /\ msgs[1 + i].role = h[n - k + i].role
              /\ msgs[1 + i].content = h[n - k + i].content
              /\ msgs[1 + i].role \in {"user", "assistant"}
        /\ msgs[k + 2] = [role |-> "user", content |-> q]

\* C4: when generate_response starts, the message list it sends to the
\* generation call is the system message, then the last min(10, |history|)
\* messages stored for the session, in order, then the user query.
MessageListContract ==
    [][\A t \in Turns :
          (turns[t].pc = "idle" /\ turns'[t].pc # "idle") =>
              IsContractMessageList(turns'[t].messages,
                                    histories[turns'[t].session],
                                    turns'[t].query)]_vars

\* C4 witness: a call has started on a session that stores more than ten
\* messages and has sent the system message, ten of them and the query.
LongHistoryTurn ==
    \E t \in Turns :
        /\ turns[t].pc # "idle"
        /\ Len(turns[t].messages) = 12
        /\ Len(histories[turns[t].session]) > 10
        /\ turns[t].messages[2].content = <<"old", "3">>

\* C6: a call whose generation call failed never raises, and when it has
\* returned, its message is the non-blank fallback text built from the
\* retrieved documents.
FallbackAlwaysReturned ==
    \A t \in Turns :
        (turns[t].pc # "idle" /\ ~turns[t].llm_ok) =>
            /\ turns[t].pc # "raised"
            /\ turns[t].pc = "returned" =>
                  /\ turns[t].response.message # <<>>
                  /\ turns[t].response.message = GenerateFallbackResponse(turns[t].docs)

\* C7: a call in which a history write failed does not raise: it goes on
\* to return its reply.
WriteFailureNeverRaises ==
    \A t \in Turns : turns[t].write_failed => turns[t].pc # "raised"

\* The filenames of a list of documents, each once, in order of first
\* appearance.
RECURSIVE FirstAppearances(_)
FirstAppearances(names) ==
    IF names = <<>> THEN <<>>
    ELSE LET front == FirstAppearances(SubSeq(names, 1, Len(names) - 1))
             last == names[Len(names)]
         IN  IF last \in Range(front) THEN front ELSE Append(front, last)

\* C9: the sources of every returned ChatResponse are the filenames of the
\* retrieved documents, each once, in order of first appearance.
SourcesDedupedInOrder ==
    \A t \in Turns :
        turns[t].pc = "returned" =>
            turns[t].response.sources = FirstAppearances(SourceList(turns[t].docs))

\* C15: search_similar_documents whose encode or query failed returns the
\* empty list, and the chat turn that made the search goes on with no
\* documents: its message list starts with a system message that says that
\* no relevant documents were found and ends with the query, and the
\* response it returns has a reply and no sources.
SearchFailureGivesNoDocuments ==
    /\ searched.failed => searched.results = <<>>
    /\ \A t \in Turns :
          (turns[t].pc # "idle" /\ turns[t].search_failed) =>
              /\ turns[t].docs = <<>>
              /\ Len(turns[t].messages) >= 2
              /\ turns[t].messages[1].role = "system"
              /\ "No relevant documents found." \in Range(turns[t].messages[1].content)
              /\ turns[t].messages[Len(turns[t].messages)] =
                     [role |-> "user", content |-> turns[t].query]
              /\ turns[t].pc = "returned" =>
                     /\ turns[t].response.message # <<>>
                     /\ turns[t].response.sources = <<>>

\* C15 witness: a turn whose search failed over a collection that holds
\* records has returned the reply of the generation call.
AnsweredAfterFailedSearch ==
    \E t \in Turns :
        /\ turns[t].search_failed
        /\ turns[t].pc = "returned"
        /\ turns[t].llm_ok
        /\ index # <<>>

EmptySessionReadsEmpty ==
    [][/\ (/\ storeOp'.op = "get"
           /\ \/ appended[storeOp'.session] = <<>>
              \/ /\ storeOp.op = "clear"
                 /\ storeOp.session = storeOp'.session)
          => storeOp'.result = <<>>
       /\ (/\ storeOp'.op = "clear"
           /\ ~HistoryFileExists(histories, storeOp'.session))
          => histories' = histories]_vars

\* C17 witness: a session that stored more than ten messages was cleared
\* and the get_chat_history that followed returned the empty list, while
\* the other session keeps its messages.
ClearedThenReadEmpty ==
    /\ storeOp.op = "get"
    /\ storeOp.prev.op = "clear"
    /\ storeOp.prev.session = storeOp.session
    /\ storeOp.prev.before > HistoryWindow
    /\ storeOp.result = <<>>
    /\ \E s \in Sessions : histories[s] # <<>>

\* The least position p >= from at which block occurs in big, or 0.
RECURSIVE FindBlock(_, _, _)
FindBlock(big, block, from) ==
    IF from + Len(block) - 1 > Len(big) THEN 0
    ELSE IF SubSeq(big, from, from + Len(block) - 1) = block THEN from
    ELSE FindBlock(big, block, from + 1)

\* From position from on, big holds the filename of every document from
\* the i-th on, each followed by the content of the document, in the order
\* of the list.
RECURSIVE ListsInOrder(_, _, _, _)
ListsInOrder(big, docs, i, from) ==
    IF i > Len(docs) THEN TRUE
    ELSE LET block == <<docs[i].metadata.filename>> \o docs[i].content
             p == FindBlock(big, block, from)
         IN  /\ p > 0
             /\ ListsInOrder(big, docs, i + 1, p + Len(block))

\* C18: the message list of every chat turn starts with a system message
\* whose text holds a context block: the statement that no relevant
\* documents were found when none was retrieved, otherwise the filename and
\* content of every retrieved chunk, in retrieval order.
ContextBlockInSystemMessage ==
    \A t \in Turns :
        turns[t].pc # "idle" =>
            /\ turns[t].messages[1].role = "system"
            /\ IF turns[t].docs = <<>>
               THEN "No relevant documents found." \in Range(turns[t].messages[1].content)
               ELSE /\ ListsInOrder(turns[t].messages[1].content, turns[t].docs, 1, 1)
                    /\ "No relevant documents found." \notin
                           Range(turns[t].messages[1].content)

\* C18 witness: one turn has started with no documents and the other with
\* a chunk of b.txt followed by a chunk of a.txt.
TurnsWithAndWithoutDocuments ==
    \E t, u \in Turns :
        /\ turns[t].pc # "idle"
        /\ turns[t].docs = <<>>
        /\ turns[u].pc # "idle"
        /\ Len(turns[u].docs) >= 2
        /\ turns[u].docs[1].metadata.filename = "b.txt"
        /\ turns[u].docs[2].metadata.filename = "a.txt"

StoredByTurn(t) ==
    SelectSeq(histories[turns[t].session], LAMBDA m : m.turn = t)

\* C22: a chat turn whose generate_response has returned, through the try
\* branch or through the except branch and also after a failed history
\* write, has stored exactly two messages: its user message followed by one
\* assistant reply, so that no user message is recorded twice.
TurnStoresTwoMessages ==
    \A t \in Turns :
        turns[t].pc = "returned" =>
            /\ Len(StoredByTurn(t)) = 2
            /\ StoredByTurn(t)[1].role = "user"
            /\ StoredByTurn(t)[2].role = "assistant"

\* C23: once DELETE /documents/{doc_id} has answered success, the document
\* has no metadata entry and the collection holds no record of it, in every
\* later state and whatever the order of upload, processing and delete.
DeletedLeavesNoTrace ==
    \A d \in deleted :
        /\ d \notin DOMAIN metadata
        /\ EntriesOf(index, d) = {}

\* The step is a history operation or a step of a chat turn on session a.
ActsOn(a) ==
    \/ storeOp' # storeOp /\ storeOp'.session = a
    \/ \E t \in Turns : turns'[t] # turns[t] /\ turns'[t].session = a

\* C24: sessions are isolated.  An append, a clear or a step of a chat turn
\* on session a leaves the stored message sequence of every other session b
\* as it was, and the history that a chat turn on a reads holds only
\* messages that were appended to a.
SessionsIsolated ==
    [][\A a \in SessionIds :
          /\ ActsOn(a) =>
                \A b \in SessionIds \ {a} :
                    GetChatHistory(histories', b) = GetChatHistory(histories, b)
          /\ \A t \in Turns :
                (turns[t].pc = "idle" /\ turns'[t].pc # "idle" /\ turns'[t].session = a) =>
                    \A m \in Range(GetChatHistory(histories, a)) : m.session_id = a]_vars

====
